---- MODULE Spec2Model ----
(***************************************************************************)
(* State-machine model of the front-end behaviours of the portfolio site:  *)
(*   - BookAnimation (src/kvnlepage-source/src/lib/book-animation.ts): the *)
(*     3D page-flip viewer, its render loop, progressive texture loading,  *)
(*     flip tweens and teardown;                                           *)
(*   - initCursor (src/kvnlepage-source/src/lib/cursor.ts) and             *)
(*     initBackground (src/unnamed/part_001): the DOM initialisers.        *)
(*                                                                         *)
(* Conventions.                                                            *)
(*   Lengths (position.z, curl amounts, arc) are integers in units of      *)
(*   1e-5 scene units.  Rotations are integers in units of PI/8.           *)
(*   gsap renders a tween at the instants of its ticker; the model samples *)
(*   a tween at most once before its end, at half its duration (instants   *)
(*   are counted in quarters of the duration), and at its end, where gsap  *)
(*   calls onUpdate with the final values followed by onComplete.          *)
(*   Pointer coordinates are whole pixels; the cursor's lerp is rounded    *)
(*   down to whole pixels.                                                 *)
(*   A mesh's vertex array is  base + curl * shape  where shape is the     *)
(*   fixed per-vertex vector sin(PI*x/pageWidth)*(0, 0.4, 1) of applyCurve;*)
(*   the model keeps the coefficient `curl` (0 = undeformed) and the       *)
(*   coefficient captured in userData.originalPositions (`orig`).          *)
(*   `out` records what the last step emitted (renderer.render calls,      *)
(*   requestAnimationFrame calls, onPageChange invocations, warnings).     *)
(***************************************************************************)
EXTENDS Integers, Sequences, FiniteSets, TLC

\* ------------------------------------------------------------------ bounds
\* Largest number of page spreads handed to the constructor.
MaxPages == 4
\* Largest number of texture-loader callbacks (onLoad or onError) the
\* environment delivers in one run.
MaxCallbacks == 1

VARIABLES
  totalPages,        \* this.totalPages
  currentPage,       \* this.currentPage
  isAnimating,       \* this.isAnimating
  isActive,          \* this.isActive
  needsRender,       \* this.needsRender
  animationFrameId,  \* this.animationFrameId: "null" or the handle of the last request
  rafQueued,         \* the frame requested under animationFrameId is still queued
  resizeListener,    \* window 'resize' listener registered
  renderer,          \* [disposed, attached]: renderer.dispose() called, domElement in container
  loadedPages,       \* this.loadedPages
  pageGroups,        \* this.pageGroups: index -> pose, children, userData.loaded
  bookGroup,         \* [pages: indices of the page groups in bookGroup, cover: cover mesh added]
  fetches,           \* textureLoader.load requests: fetch id -> "idle"|"pending"|"loaded"|"failed"
  live,              \* geometries, materials and textures created and not disposed
  loadIndex,         \* closure variable of loadPagesProgressively
  loadTimer,         \* a setTimeout(loadNext, ...) is pending
  warmUpTimer,       \* a setTimeout(() => this.warmUp(), 50) is pending
  tweens,            \* gsap tweens in flight
  out,               \* what the last step emitted
  \* ---- the document that initCursor and initBackground act on
  dom,               \* [elements: ids present, touch: 'ontouchstart' in window, styleElements]
  styles,            \* [cursorDisplay, canvasDisplay, bodyCursor, left, top]
  classList,         \* cursor.classList
  cursors,           \* one closure per initCursor call that got past its guards
  listeners,         \* [document, element]: event listeners registered so far
  domOut             \* the DOM operation of the last step

viewerVars == <<totalPages, currentPage, isAnimating, isActive, needsRender,
                animationFrameId, rafQueued, resizeListener, renderer,
                loadedPages, pageGroups, bookGroup, fetches, live, loadIndex,
                loadTimer, warmUpTimer, tweens, out>>

pageVars == <<dom, styles, classList, cursors, listeners, domOut>>

vars == <<viewerVars, pageVars>>

\* ------------------------------------------------------------- helpers
Min(a, b) == IF a < b THEN a ELSE b

\* userData.originalPositions not set
NoOrig == -1

\* -index * 0.005, in 1e-5 units (createPagePlaceholders, prevPage endZ)
RestZ(index) == -(index * 500)

\* Math.log(n) * 1e5, rounded
Ln1e5(n) ==
  CASE n = 1 -> 0
    [] n = 2 -> 69315
    [] n = 3 -> 109861
    [] n = 4 -> 138629
    [] n = 5 -> 160944
    [] n = 6 -> 179176
    [] n = 7 -> 194591
    [] OTHER -> 207944

\* 0.05 + Math.log(flippedIndex + 1) * 0.02, in 1e-5 units
FlippedZ(flippedIndex) == 5000 + (Ln1e5(flippedIndex + 1) * 2) \div 100

\* ease 'power2.inOut' at quarter q of the duration, in eighths
Ease8(q) ==
  IF 2 * q < 4 THEN (2 * q * q * 8) \div 16
               ELSE 8 - (2 * (4 - q) * (4 - q) * 8) \div 16

\* Math.sin(progress * Math.PI) * 0.2 in 1e-5 units, progress in eighths.
\* Math.sin(Math.PI) is 1.2e-16 in IEEE doubles: below the unit.
Arc(e8) ==
  CASE e8 = 1 -> 7654
    [] e8 = 4 -> 20000
    [] e8 = 7 -> 7654
    [] OTHER -> 0

\* Math.sin(progress*PI)^2 * 0.25 in 1e-5 units, progress in eighths.  At
\* progress 1 the double is 3.7e-33, not 0: the last onUpdate leaves a
\* residue on the vertices, written 1 here (positive, below every other value).
CurlIntensity(e8) ==
  CASE e8 = 0 -> 0
    [] e8 = 1 -> 3661
    [] e8 = 4 -> 25000
    [] e8 = 7 -> 3661
    [] OTHER -> 1

\* ------------------------------------------------------- resources
Res(page, part, kind) == [page |-> page, part |-> part, kind |-> kind]

\* geometry, material and material.map of a mesh child of page group `page`
MeshResources(page, mesh) ==
  {Res(page, mesh.kind, "geometry"), Res(page, mesh.kind, "material")}
    \cup (IF mesh.kind = "placeholder" THEN {} ELSE {Res(page, mesh.kind, "texture")})

NewMesh(kind) == [kind |-> kind, orig |-> NoOrig, curl |-> 0]

\* fetch ids; the left cover is page -1
Fetch(page, side) == [page |-> page, side |-> side]
CoverFetch == Fetch(-1, "cover")
FetchIds(n) == {Fetch(i, s) : i \in 0..(n - 1), s \in {"front", "back"}} \cup {CoverFetch}

Quiet(op) == [op |-> op, render |-> "none", raf |-> FALSE, cb |-> <<>>, warn |-> FALSE]

\* --------------------------------------------------- loading (pure part)
\* The part of the viewer that loadPage reads and writes, as a record.
LoadState == [loadedPages |-> loadedPages, pageGroups |-> pageGroups,
              fetches |-> fetches, live |-> live]

\* createPagePlaceholders: one group per page holding a placeholder mesh
PlaceholderGroup(index) ==
  [rotation |-> 0, z |-> RestZ(index), renderOrder |-> -index,
   children |-> <<NewMesh("placeholder")>>, loaded |-> FALSE]

\* State of the loading part after createPagePlaceholders and the synchronous
\* part of loadLeftCover (the cover geometry exists, its fetch is pending).
PlaceholderState(n) ==
  [loadedPages |-> {},
   pageGroups  |-> [i \in 0..(n - 1) |-> PlaceholderGroup(i)],
   fetches     |-> [f \in FetchIds(n) |-> IF f = CoverFetch THEN "pending" ELSE "idle"],
   live        |-> UNION {MeshResources(i, NewMesh("placeholder")) : i \in 0..(n - 1)}
                     \cup {Res(-1, "cover", "geometry")}]

\* resources of every Mesh child of a page group
ChildResources(index, children) ==
  UNION {MeshResources(index, children[j]) : j \in 1..Len(children)}

\* loadPage(index)
LoadPage(s, index) ==
  IF index \in s.loadedPages THEN s
  ELSE [loadedPages |-> s.loadedPages \cup {index},
        \* remove the placeholder: dispose each Mesh child, then remove it
        pageGroups  |-> [s.pageGroups EXCEPT ![index].children = <<>>],
        \* two textureLoader.load calls
        fetches     |-> [s.fetches EXCEPT ![Fetch(index, "front")] = "pending",
                                          ![Fetch(index, "back")] = "pending"],
        \* the PlaneGeometry that both callbacks clone
        live        |-> (s.live \ ChildResources(index, s.pageGroups[index].children))
                          \cup {Res(index, "base", "geometry")}]

\* for (i = lo; i < hi; i++) this.loadPage(i)
RECURSIVE LoadPages(_, _, _)
LoadPages(s, lo, hi) ==
  IF lo >= hi THEN s ELSE LoadPages(LoadPage(s, lo), lo + 1, hi)

\* loadPagesProgressively, synchronous part: the first 3 pages
LoadPagesProgressively(s, n) == LoadPages(s, 0, Min(3, n))

\* ----------------------------------------------------- vertex deformation
\* applyCurve on one mesh
ApplyCurveMesh(mesh, curlAmount) ==
  LET captured == IF mesh.orig = NoOrig THEN mesh.curl ELSE mesh.orig
  IN  [mesh EXCEPT !.orig = captured, !.curl = captured + curlAmount]

\* applyCurve(pageGroup, curlAmount)
ApplyCurve(children, curlAmount) ==
  [j \in 1..Len(children) |-> ApplyCurveMesh(children[j], curlAmount)]

\* Variant of resetCurve that leaves the vertices as the last applyCurve set them.
ResetCurveSkip(children) == children

\* resetCurve(pageGroup)
ResetCurve(children) ==
  [j \in 1..Len(children) |->
     IF children[j].orig = NoOrig THEN children[j]
     ELSE [children[j] EXCEPT !.curl = children[j].orig]]

\* ------------------------------------------------------------ constructor
\* the state after new BookAnimation({pages: n spreads, ...})
Constructed(n) ==
  /\ totalPages = n
  /\ currentPage = 0
  /\ isAnimating = FALSE
  /\ isActive = TRUE
  /\ needsRender = TRUE
  /\ LET s == LoadPagesProgressively(PlaceholderState(totalPages), totalPages)
     IN  /\ loadedPages = s.loadedPages
         /\ pageGroups = s.pageGroups
         /\ fetches = s.fetches
         /\ live = s.live
  /\ bookGroup = [pages |-> 0..(totalPages - 1), cover |-> FALSE]
  /\ loadIndex = 3
  /\ loadTimer = TRUE
  /\ warmUpTimer = FALSE
  /\ tweens = {}
  /\ resizeListener = TRUE
  /\ renderer = [disposed |-> FALSE, attached |-> TRUE]
  \* this.animate() at the end of the constructor
  /\ animationFrameId = "frame"
  /\ rafQueued = TRUE
  \* this.onPageChange?.(1, this.totalPages) in createPagePlaceholders
  /\ out = [op |-> "constructor", render |-> "animate", raf |-> TRUE,
            cb |-> << <<1, n>> >>, warn |-> FALSE]

\* ------------------------------------------------------------ render loop
\* animate, run as the queued animation-frame callback
Animate ==
  /\ rafQueued
  /\ IF ~isActive
       THEN /\ rafQueued' = FALSE
            /\ out' = Quiet("animate")
            /\ UNCHANGED animationFrameId
       ELSE /\ animationFrameId' = "frame"
            /\ rafQueued' = TRUE
            /\ out' = [Quiet("animate") EXCEPT
                         !.raf = TRUE,
                         !.render = IF needsRender THEN "animate" ELSE "none"]
  /\ UNCHANGED <<pageVars, totalPages, currentPage, isAnimating, isActive, needsRender,
                 resizeListener, renderer, loadedPages, pageGroups, bookGroup,
                 fetches, live, loadIndex, loadTimer, warmUpTimer, tweens>>

\* handleResize, run by the window 'resize' listener
HandleResize ==
  /\ resizeListener
  /\ needsRender' = TRUE
  /\ out' = Quiet("handleResize")
  /\ UNCHANGED <<pageVars, totalPages, currentPage, isAnimating, isActive,
                 animationFrameId, rafQueued, resizeListener, renderer,
                 loadedPages, pageGroups, bookGroup, fetches, live, loadIndex,
                 loadTimer, warmUpTimer, tweens>>

\* --------------------------------------------------------- timers, loads
\* Variant of loadNext whose chain stops one page short.
LoadNextShort ==
  /\ loadTimer
  /\ IF loadIndex < totalPages - 1
       THEN LET s == LoadPage(LoadState, loadIndex)
            IN  /\ loadedPages' = s.loadedPages
                /\ pageGroups' = s.pageGroups
                /\ fetches' = s.fetches
                /\ live' = s.live
                /\ loadIndex' = loadIndex + 1
                /\ loadTimer' = TRUE
       ELSE /\ loadTimer' = FALSE
            /\ UNCHANGED <<loadedPages, pageGroups, fetches, live, loadIndex>>
  /\ out' = Quiet("loadNext")
  /\ UNCHANGED <<pageVars, totalPages, currentPage, isAnimating, isActive, needsRender,
                 animationFrameId, rafQueued, resizeListener, renderer,
                 bookGroup, warmUpTimer, tweens>>

\* loadNext, run by setTimeout
LoadNext ==
  /\ loadTimer
  /\ IF loadIndex < totalPages
       THEN LET s == LoadPage(LoadState, loadIndex)
            IN  /\ loadedPages' = s.loadedPages
                /\ pageGroups' = s.pageGroups
                /\ fetches' = s.fetches
                /\ live' = s.live
                /\ loadIndex' = loadIndex + 1
                /\ loadTimer' = TRUE
       ELSE /\ loadTimer' = FALSE
            /\ UNCHANGED <<loadedPages, pageGroups, fetches, live, loadIndex>>
  /\ out' = Quiet("loadNext")
  /\ UNCHANGED <<pageVars, totalPages, currentPage, isAnimating, isActive, needsRender,
                 animationFrameId, rafQueued, resizeListener, renderer,
                 bookGroup, warmUpTimer, tweens>>

\* number of loader callbacks delivered so far
Delivered == Cardinality({f \in DOMAIN fetches : fetches[f] \in {"loaded", "failed"}})

\* onLoad callback of a page texture (front or back)
PageTextureLoaded(f) ==
  /\ f.page >= 0
  /\ fetches[f] = "pending"
  /\ Delivered < MaxCallbacks
  /\ fetches' = [fetches EXCEPT ![f] = "loaded"]
  /\ live' = live \cup MeshResources(f.page, NewMesh(f.side))
  /\ pageGroups' = [pageGroups EXCEPT
                      ![f.page].children = Append(@, NewMesh(f.side)),
                      ![f.page].loaded = IF f.side = "front" THEN TRUE ELSE @]
  /\ needsRender' = TRUE
  /\ warmUpTimer' = IF f.side = "front" /\ f.page = 0 THEN TRUE ELSE warmUpTimer
  /\ out' = Quiet("textureLoaded")
  /\ UNCHANGED <<pageVars, totalPages, currentPage, isAnimating, isActive,
                 animationFrameId, rafQueued, resizeListener, renderer,
                 loadedPages, bookGroup, loadIndex, loadTimer, tweens>>

\* onLoad callback of the left cover texture
CoverTextureLoaded ==
  /\ fetches[CoverFetch] = "pending"
  /\ Delivered < MaxCallbacks
  /\ fetches' = [fetches EXCEPT ![CoverFetch] = "loaded"]
  /\ live' = live \cup {Res(-1, "cover", "material"), Res(-1, "cover", "texture")}
  /\ bookGroup' = [bookGroup EXCEPT !.cover = TRUE]
  /\ needsRender' = TRUE
  /\ out' = Quiet("textureLoaded")
  /\ UNCHANGED <<pageVars, totalPages, currentPage, isAnimating, isActive,
                 animationFrameId, rafQueued, resizeListener, renderer,
                 loadedPages, pageGroups, loadIndex, loadTimer, warmUpTimer,
                 tweens>>

\* Variant of the onError callback that forgets the page was requested, so
\* that a later loadPage fetches it again.
TextureFailedRetry(f) ==
  /\ fetches[f] = "pending"
  /\ Delivered < MaxCallbacks
  /\ fetches' = [fetches EXCEPT ![f] = "failed"]
  /\ loadedPages' = loadedPages \ {f.page}
  /\ out' = [Quiet("textureError") EXCEPT !.warn = TRUE]
  /\ UNCHANGED <<pageVars, totalPages, currentPage, isAnimating, isActive, needsRender,
                 animationFrameId, rafQueued, resizeListener, renderer,
                 pageGroups, bookGroup, live, loadIndex,
                 loadTimer, warmUpTimer, tweens>>

\* onError callback of any texture fetch: console.warn only
TextureFailed(f) ==
  /\ fetches[f] = "pending"
  /\ Delivered < MaxCallbacks
  /\ fetches' = [fetches EXCEPT ![f] = "failed"]
  /\ out' = [Quiet("textureError") EXCEPT !.warn = TRUE]
  /\ UNCHANGED <<pageVars, totalPages, currentPage, isAnimating, isActive, needsRender,
                 animationFrameId, rafQueued, resizeListener, renderer,
                 loadedPages, pageGroups, bookGroup, live, loadIndex,
                 loadTimer, warmUpTimer, tweens>>

\* warmUp, run by setTimeout 50 ms after the front texture of page 0 loaded
WarmUp ==
  /\ warmUpTimer
  /\ warmUpTimer' = FALSE
  /\ IF 0 \in DOMAIN pageGroups /\ Len(pageGroups[0].children) > 0
       THEN /\ pageGroups' = [pageGroups EXCEPT
                                ![0].children = ResetCurve(ApplyCurve(@, 100))]
            /\ out' = [Quiet("warmUp") EXCEPT !.render = "warmUp"]
       ELSE /\ UNCHANGED pageGroups
            /\ out' = Quiet("warmUp")
  /\ UNCHANGED <<pageVars, totalPages, currentPage, isAnimating, isActive, needsRender,
                 animationFrameId, rafQueued, resizeListener, renderer,
                 loadedPages, bookGroup, fetches, live, loadIndex, loadTimer,
                 tweens>>

\* ------------------------------------------------------------- navigation
\* The part of the viewer that nextPage and prevPage read and write.
NavState == [currentPage |-> currentPage, isAnimating |-> isAnimating,
             loadedPages |-> loadedPages, pageGroups |-> pageGroups,
             fetches |-> fetches, live |-> live, tweens |-> tweens]

\* the loading part of a navigation state
LoadPart(s) == [loadedPages |-> s.loadedPages, pageGroups |-> s.pageGroups,
                fetches |-> s.fetches, live |-> s.live]

\* gsap.to(anim, {...}) of a flip: direction, page group, last sample rendered
\* (quarter of the duration), anim.z at the start and its target
NewTween(dir, page, startZ, endZ) ==
  [dir |-> dir, page |-> page, q |-> 0, startZ |-> startZ, endZ |-> endZ]

\* Variant of the guard of nextPage that is off by one at the last page.
NextPageRejectedLate(s, n) == s.isAnimating \/ s.currentPage > n - 1

\* guard of nextPage: the call returns at once
NextPageRejected(s, n) == s.isAnimating \/ s.currentPage >= n - 1

\* nextPage()
NextPageOn(s, n) ==
  IF NextPageRejected(s, n) THEN s
  ELSE LET l == LoadPages(LoadPart(s), s.currentPage + 1, Min(s.currentPage + 4, n))
           k == s.currentPage
       IN  IF k \notin DOMAIN l.pageGroups
             THEN [s EXCEPT !.loadedPages = l.loadedPages, !.pageGroups = l.pageGroups,
                            !.fetches = l.fetches, !.live = l.live,
                            !.isAnimating = FALSE]
             ELSE [s EXCEPT !.loadedPages = l.loadedPages,
                            !.pageGroups = [l.pageGroups EXCEPT ![k].renderOrder = n + 100],
                            !.fetches = l.fetches, !.live = l.live,
                            !.isAnimating = TRUE,
                            !.tweens = @ \cup {NewTween("next", k, l.pageGroups[k].z,
                                                        FlippedZ(k))}]

\* Variant of the guard of prevPage that does not look at isAnimating.
PrevPageRejectedIdle(s) == s.currentPage <= 0

\* guard of prevPage: the call returns at once
PrevPageRejected(s) == s.isAnimating \/ s.currentPage <= 0

\* prevPage()
PrevPageOn(s, n) ==
  IF PrevPageRejected(s) THEN s
  ELSE LET pageIndex == s.currentPage - 1
       IN  IF pageIndex \notin DOMAIN s.pageGroups
             THEN [s EXCEPT !.isAnimating = FALSE]
             ELSE [s EXCEPT !.pageGroups[pageIndex].renderOrder = n + 100,
                            !.isAnimating = TRUE,
                            !.tweens = @ \cup {NewTween("prev", pageIndex,
                                                        s.pageGroups[pageIndex].z,
                                                        RestZ(pageIndex))}]

\* the viewer takes the navigation state s
SetNav(s) ==
  /\ currentPage' = s.currentPage
  /\ isAnimating' = s.isAnimating
  /\ loadedPages' = s.loadedPages
  /\ pageGroups' = s.pageGroups
  /\ fetches' = s.fetches
  /\ live' = s.live
  /\ tweens' = s.tweens

NextPage ==
  /\ SetNav(NextPageOn(NavState, totalPages))
  /\ out' = Quiet("nextPage")
  /\ UNCHANGED <<pageVars, totalPages, isActive, needsRender, animationFrameId, rafQueued,
                 resizeListener, renderer, bookGroup, loadIndex, loadTimer,
                 warmUpTimer>>

PrevPage ==
  /\ SetNav(PrevPageOn(NavState, totalPages))
  /\ out' = Quiet("prevPage")
  /\ UNCHANGED <<pageVars, totalPages, isActive, needsRender, animationFrameId, rafQueued,
                 resizeListener, renderer, bookGroup, loadIndex, loadTimer,
                 warmUpTimer>>

\* ------------------------------------------------------------ flip tweens
\* anim.rotation at eased progress e8, in units of PI/8
AnimRotation(t, e8) == IF t.dir = "next" THEN -e8 ELSE -8 + e8

\* `progress` as onUpdate computes it from anim.rotation, in eighths
Progress(t, rotation) ==
  LET abs == IF rotation < 0 THEN -rotation ELSE rotation
  IN  IF t.dir = "next" THEN abs ELSE 8 - abs

\* anim.z at eased progress e8
AnimZ(t, e8) == t.startZ + ((t.endZ - t.startZ) * e8) \div 8

\* onUpdate of a flip tween, gsap having set anim to eased progress e8
OnUpdate(group, t, e8) ==
  LET rotation == AnimRotation(t, e8)
      progress == Progress(t, rotation)
  IN  [group EXCEPT !.rotation = rotation,
                    !.z = AnimZ(t, e8) + Arc(progress),
                    !.children = ApplyCurve(@, CurlIntensity(progress))]

\* onComplete of a flip tween: the pose of the page group
OnCompleteGroup(group, t, n) ==
  [group EXCEPT !.children = ResetCurve(@),
                !.z = t.endZ,
                !.renderOrder = IF t.dir = "next" THEN n + t.page ELSE -t.page]

\* onComplete of a flip tween: this.currentPage++ / this.currentPage--
OnCompletePage(t, page) == IF t.dir = "next" THEN page + 1 ELSE page - 1

\* instants, in quarters of the duration, at which a tween is rendered before its end
Samples == {2}

\* Variant that reports the 0-based index.
PageChangeArgsZeroBased(page, n) == <<page, n>>

\* arguments of this.onPageChange?.(this.currentPage + 1, this.totalPages)
PageChangeArgs(page, n) == <<page + 1, n>>

\* a gsap tick that renders tween t at a later sample q, before its end
TweenTick(t, q) ==
  /\ t \in tweens
  /\ q > t.q
  /\ pageGroups' = [pageGroups EXCEPT ![t.page] = OnUpdate(@, t, Ease8(q))]
  /\ tweens' = (tweens \ {t}) \cup {[t EXCEPT !.q = q]}
  /\ needsRender' = TRUE
  /\ out' = Quiet("onUpdate")
  /\ UNCHANGED <<pageVars, totalPages, currentPage, isAnimating, isActive,
                 animationFrameId, rafQueued, resizeListener, renderer,
                 loadedPages, bookGroup, fetches, live, loadIndex, loadTimer,
                 warmUpTimer>>

\* the gsap tick that ends tween t: onUpdate with the final values, then
\* onComplete
TweenComplete(t) ==
  /\ t \in tweens
  /\ pageGroups' = [pageGroups EXCEPT
                      ![t.page] = OnCompleteGroup(OnUpdate(@, t, 8), t, totalPages)]
  /\ currentPage' = OnCompletePage(t, currentPage)
  /\ isAnimating' = FALSE
  /\ tweens' = tweens \ {t}
  /\ needsRender' = TRUE
  /\ out' = [Quiet(IF t.dir = "next" THEN "nextPage.onComplete" ELSE "prevPage.onComplete")
               EXCEPT !.cb = <<PageChangeArgs(OnCompletePage(t, currentPage), totalPages)>>]
  /\ UNCHANGED <<pageVars, totalPages, isActive, animationFrameId, rafQueued,
                 resizeListener, renderer, loadedPages, bookGroup, fetches,
                 live, loadIndex, loadTimer, warmUpTimer>>

\* --------------------------------------------------------------- teardown
\* Variant of destroy() that releases the page meshes but leaves the render
\* loop running: isActive stays set and the queued frame is not cancelled.
DestroyKeepsLoop ==
  /\ resizeListener' = FALSE
  /\ live' = live \ UNION {ChildResources(i, pageGroups[i].children) : i \in DOMAIN pageGroups}
  /\ bookGroup' = [bookGroup EXCEPT !.pages = {}]
  /\ renderer' = [disposed |-> TRUE, attached |-> FALSE]
  /\ out' = Quiet("destroy")
  /\ UNCHANGED <<pageVars, totalPages, currentPage, isAnimating, isActive, needsRender,
                 animationFrameId, rafQueued, loadedPages, pageGroups, fetches,
                 loadIndex, loadTimer, warmUpTimer, tweens>>

\* destroy()
Destroy ==
  /\ isActive' = FALSE
  \* cancelAnimationFrame(this.animationFrameId)
  /\ rafQueued' = IF animationFrameId # "null" THEN FALSE ELSE rafQueued
  /\ resizeListener' = FALSE
  /\ live' = live \ UNION {ChildResources(i, pageGroups[i].children) : i \in DOMAIN pageGroups}
  /\ bookGroup' = [bookGroup EXCEPT !.pages = {}]
  /\ renderer' = [disposed |-> TRUE, attached |-> FALSE]
  /\ out' = Quiet("destroy")
  /\ UNCHANGED <<pageVars, totalPages, currentPage, isAnimating, needsRender,
                 animationFrameId, loadedPages, pageGroups, fetches, loadIndex,
                 loadTimer, warmUpTimer, tweens>>

\* ------------------------------------------------------------ the document
\* Largest number of initCursor() calls that get past both guards.
MaxCursorInits == 1
\* Largest number of 'astro:page-load' events dispatched.
MaxPageLoads == 1

\* state classes that setCursorState removes
StateClasses == {"hover", "arrow-left", "arrow-right", "clicking"}

\* elements matched by 'a, button, [data-cursor-hover]' and the two book zones
Interactive == {"link"}
Zones == {"book-click-prev", "book-click-next"}

\* pointer positions the mouse reports (clientX = clientY)
Pointer == {0, 10}

\* elements that initBackground creates
BackgroundElements == {"eyes-bg", "eyes-frame", "eyes-img", "flower-overlay", "dots-grid"}

\* a document on which nothing was initialised
BlankDocument(anchors, touch) ==
  /\ dom = [elements |-> anchors \cup Interactive, touch |-> touch, styleElements |-> 0]
  /\ styles = [cursorDisplay |-> "", canvasDisplay |-> "", bodyCursor |-> "",
               left |-> -1, top |-> -1]
  /\ classList = {}
  /\ cursors = <<>>
  /\ listeners = [document |-> 0, element |-> 0]
  /\ domOut = "load"

\* updateCursor body: cursorX += (targetX - cursorX) * 0.15, likewise Y
Lerp(c) ==
  [c EXCEPT !.cursorX = @ + ((c.targetX - @) * 15) \div 100,
            !.cursorY = @ + ((c.targetY - @) * 15) \div 100]

\* number of listeners one run of setupInteractiveElements registers
SetupListeners(elements) ==
  2 * Cardinality(elements \cap Interactive) + 2 * Cardinality(elements \cap Zones)

\* initCursor()
InitCursor ==
  /\ Len(cursors) < MaxCursorInits
  /\ domOut' = "initCursor"
  /\ IF "cursor" \notin dom.elements
       THEN UNCHANGED <<dom, styles, classList, cursors, listeners>>
       ELSE IF dom.touch
         THEN /\ styles' = [styles EXCEPT !.cursorDisplay = "none"]
              /\ UNCHANGED <<dom, classList, cursors, listeners>>
         ELSE LET c == Lerp([cursorX |-> 0, cursorY |-> 0, targetX |-> 0,
                             targetY |-> 0, currentState |-> "default"])
              IN  /\ cursors' = Append(cursors, c)
                  \* mousemove, mousedown, mouseup, astro:page-load; then one setup
                  /\ listeners' = [document |-> listeners.document + 4,
                                   element |-> listeners.element + SetupListeners(dom.elements)]
                  /\ styles' = [styles EXCEPT !.left = c.cursorX, !.top = c.cursorY,
                                              !.bodyCursor = "none"]
                  /\ dom' = [dom EXCEPT !.styleElements = @ + 1]
                  /\ UNCHANGED classList
  /\ UNCHANGED viewerVars

\* Variant of initBackground() that builds the layers without looking for
\* the canvas first.
InitBackgroundUnguarded ==
  /\ domOut' = "initBackground"
  /\ styles' = [styles EXCEPT !.canvasDisplay =
                   IF "bg-canvas" \in dom.elements THEN "none" ELSE @]
  /\ IF "eyes-bg" \in dom.elements
       THEN UNCHANGED dom
       ELSE dom' = [dom EXCEPT !.elements = @ \cup BackgroundElements]
  /\ UNCHANGED <<classList, cursors, listeners, viewerVars>>

\* initBackground()
InitBackground ==
  /\ domOut' = "initBackground"
  /\ IF "bg-canvas" \notin dom.elements
       THEN UNCHANGED <<dom, styles>>
       ELSE /\ styles' = [styles EXCEPT !.canvasDisplay = "none"]
            /\ IF "eyes-bg" \in dom.elements
                 THEN UNCHANGED dom
                 ELSE dom' = [dom EXCEPT !.elements = @ \cup BackgroundElements]
  /\ UNCHANGED <<classList, cursors, listeners, viewerVars>>

\* 'mousemove' listeners: every closure records the pointer
MouseMove(p) ==
  /\ Len(cursors) > 0
  /\ cursors' = [i \in 1..Len(cursors) |-> [cursors[i] EXCEPT !.targetX = p, !.targetY = p]]
  /\ domOut' = "mousemove"
  /\ UNCHANGED <<dom, styles, classList, listeners, viewerVars>>

\* updateCursor of closure i, run as its animation-frame callback
UpdateCursor(i) ==
  /\ i \in 1..Len(cursors)
  /\ cursors' = [cursors EXCEPT ![i] = Lerp(@)]
  /\ styles' = [styles EXCEPT !.left = Lerp(cursors[i]).cursorX,
                              !.top = Lerp(cursors[i]).cursorY]
  /\ domOut' = "updateCursor"
  /\ UNCHANGED <<dom, classList, listeners, viewerVars>>

\* 'mousedown' / 'mouseup' listeners
MouseDown ==
  /\ Len(cursors) > 0
  /\ classList' = classList \cup {"clicking"}
  /\ domOut' = "mousedown"
  /\ UNCHANGED <<dom, styles, cursors, listeners, viewerVars>>

MouseUp ==
  /\ Len(cursors) > 0
  /\ classList' = classList \ {"clicking"}
  /\ domOut' = "mouseup"
  /\ UNCHANGED <<dom, styles, cursors, listeners, viewerVars>>

\* setCursorState(state) in closure c, on class list cl: <<closure, class list>>
SetCursorState(c, cl, state) ==
  IF c.currentState = state THEN <<c, cl>>
  ELSE <<[c EXCEPT !.currentState = state],
         (cl \ StateClasses) \cup (IF state # "default" THEN {state} ELSE {})>>

\* one mouseenter/mouseleave listener of closure c on element el
HoverListener(c, cl, el, state) ==
  IF el \in Interactive
    THEN IF "arrow-left" \notin cl /\ "arrow-right" \notin cl
           THEN SetCursorState(c, cl, state)
           ELSE <<c, cl>>
    ELSE SetCursorState(c, cl, state)

\* the listeners of closures i.. run in registration order
RECURSIVE Dispatch(_, _, _, _, _)
Dispatch(cs, cl, i, el, state) ==
  IF i > Len(cs) THEN <<cs, cl>>
  ELSE LET r == HoverListener(cs[i], cl, el, state)
       IN  Dispatch([cs EXCEPT ![i] = r[1]], r[2], i + 1, el, state)

\* the state a mouseenter on el asks for
EnterState(el) ==
  CASE el = "book-click-prev" -> "arrow-left"
    [] el = "book-click-next" -> "arrow-right"
    [] OTHER -> "hover"

MouseEnter(el) ==
  /\ Len(cursors) > 0
  /\ el \in dom.elements
  /\ LET r == Dispatch(cursors, classList, 1, el, EnterState(el))
     IN  cursors' = r[1] /\ classList' = r[2]
  /\ domOut' = "mouseenter"
  /\ UNCHANGED <<dom, styles, listeners, viewerVars>>

MouseLeave(el) ==
  /\ Len(cursors) > 0
  /\ el \in dom.elements
  /\ LET r == Dispatch(cursors, classList, 1, el, "default")
     IN  cursors' = r[1] /\ classList' = r[2]
  /\ domOut' = "mouseleave"
  /\ UNCHANGED <<dom, styles, listeners, viewerVars>>

\* 'astro:page-load': every closure runs setupInteractiveElements again
PageLoad ==
  /\ Len(cursors) > 0
  /\ listeners.element < (1 + MaxPageLoads) * Len(cursors) * SetupListeners(dom.elements)
  /\ listeners' = [listeners EXCEPT
                     !.element = @ + Len(cursors) * SetupListeners(dom.elements)]
  /\ domOut' = "astro:page-load"
  /\ UNCHANGED <<dom, styles, classList, cursors, viewerVars>>

\* ---------------------------------------------------------- specification
Next ==
  \/ Animate
  \/ HandleResize
  \/ LoadNext
  \/ \E f \in DOMAIN fetches : PageTextureLoaded(f)
  \/ CoverTextureLoaded
  \/ \E f \in DOMAIN fetches : TextureFailed(f)
  \/ WarmUp
  \/ NextPage
  \/ PrevPage
  \/ \E t \in tweens : \E q \in Samples : TweenTick(t, q)
  \/ \E t \in tweens : TweenComplete(t)
  \/ Destroy

\* The viewer, on a document on which nothing else was initialised.
Init ==
  /\ \E n \in 0..MaxPages : Constructed(n)
  /\ BlankDocument({}, FALSE)

Spec == Init /\ [][Next]_vars

\* The document, with any of its anchor elements missing; the viewer is not run.
InitDocument ==
  /\ Constructed(0)
  /\ \E anchors \in SUBSET ({"cursor", "bg-canvas"} \cup Zones) :
       \E touch \in BOOLEAN : BlankDocument(anchors, touch)

NextDocument ==
  \/ InitCursor
  \/ InitBackground
  \/ \E p \in Pointer : MouseMove(p)
  \/ \E i \in 1..Len(cursors) : UpdateCursor(i)
  \/ MouseDown
  \/ MouseUp
  \/ \E el \in Interactive \cup Zones : MouseEnter(el)
  \/ \E el \in Interactive \cup Zones : MouseLeave(el)
  \/ PageLoad

SpecDocument == InitDocument /\ [][NextDocument]_vars

\* The viewer with the timers of loadPagesProgressively firing: a pending
\* setTimeout callback is eventually run by the browser's event loop.
SpecTimers == Init /\ [][Next]_vars /\ WF_vars(LoadNext)

\* ================================================================= claims
\* getCurrentPage() and getTotalPages()
GetCurrentPage == currentPage + 1
GetTotalPages == totalPages

\* state that a navigation call may write
NavVars == <<currentPage, isAnimating, loadedPages, pageGroups, fetches, live, tweens>>

\* ---- C1
\* C1: once destroy() has been called, no run of the animate frame callback
\* calls renderer.render or requests another animation frame.
C1_RenderLoopStopped ==
  renderer.disposed =>
    ~(out.op = "animate" /\ (out.render # "none" \/ out.raf))

\* C1 witness: destroy() was called while a frame was queued, the frame was
\* cancelled, and the viewer has taken a further step since.
C1_Witness ==
  /\ renderer.disposed
  /\ ~isActive
  /\ ~rafQueued
  /\ animationFrameId # "null"
  /\ out.op \notin {"destroy", "constructor"}

\* ---- C2
\* C2: once destroy() has been called, every geometry, material and texture
\* the viewer created for its pages and its left cover is disposed, also
\* after late timers and texture callbacks.
C2_AllReleased == renderer.disposed => live = {}

\* ---- C3
\* C3: a failed texture fetch only warns: the onError step changes no viewer
\* state, a failed fetch is never issued again, and nextPage/prevPage act on
\* a state with a failed fetch exactly as on the same state with that fetch
\* still pending.
C3_FailedFetchInert ==
  [][ /\ out'.op = "textureError" =>
           /\ out'.warn
           /\ UNCHANGED <<totalPages, currentPage, isAnimating, isActive,
                          needsRender, loadedPages, pageGroups, bookGroup,
                          live, tweens, loadIndex, loadTimer, warmUpTimer,
                          rafQueued, renderer>>
           /\ \A f \in DOMAIN fetches :
                fetches'[f] # fetches[f] => fetches[f] = "pending" /\ fetches'[f] = "failed"
      /\ \A f \in DOMAIN fetches : fetches[f] = "failed" =>
           /\ fetches'[f] = "failed"
           /\ LET asPending == [NavState EXCEPT !.fetches[f] = "pending"]
              IN  /\ NextPageOn(asPending, totalPages)
                       = [NextPageOn(NavState, totalPages) EXCEPT !.fetches[f] = "pending"]
                  /\ PrevPageOn(asPending, totalPages)
                       = [PrevPageOn(NavState, totalPages) EXCEPT !.fetches[f] = "pending"]
           /\ (out'.op = "nextPage"
                 /\ ~isAnimating /\ currentPage < totalPages - 1) => isAnimating'
           /\ (out'.op = "prevPage"
                 /\ ~isAnimating /\ currentPage > 0) => isAnimating'
    ]_vars

\* C3 witness: a page texture failed and a flip started afterwards is running.
C3_Witness ==
  /\ \E f \in DOMAIN fetches : fetches[f] = "failed" /\ f.page >= 0
  /\ isAnimating
  /\ tweens # {}

\* ---- C4
\* C4: initCursor() without an element 'cursor', and initBackground() without
\* an element 'bg-canvas', create no element, change no style and register no
\* event listener or animation-frame callback.
C4_MissingAnchorNoOp ==
  [][ /\ (domOut' = "initCursor" /\ "cursor" \notin dom.elements) =>
           UNCHANGED <<dom, styles, classList, cursors, listeners>>
      /\ (domOut' = "initBackground" /\ "bg-canvas" \notin dom.elements) =>
           UNCHANGED <<dom, styles, classList, cursors, listeners>>
    ]_vars

\* C4 witness: an initialiser has run on a document that has neither anchor.
C4_Witness ==
  /\ "cursor" \notin dom.elements
  /\ "bg-canvas" \notin dom.elements
  /\ domOut \in {"initCursor", "initBackground"}

\* ---- C5
\* C5: when no flip is running, every page at or after currentPage is in its
\* initial pose (rotation 0, depth -k * 0.005, renderOrder -k, undeformed
\* vertices): so a completed prevPage() after a completed nextPage() from k
\* leaves currentPage = k, isAnimating false and page k as before the pair,
\* however often the pair is repeated.
C5_FlipRestores ==
  /\ ~isAnimating =>
       \A k \in DOMAIN pageGroups : k >= currentPage =>
         /\ pageGroups[k].rotation = 0
         /\ pageGroups[k].z = -(k * 500)
         /\ pageGroups[k].renderOrder = -k
         /\ \A j \in 1..Len(pageGroups[k].children) : pageGroups[k].children[j].curl = 0
  /\ out.op = "prevPage.onComplete" =>
       /\ ~isAnimating
       /\ currentPage \in 0..(totalPages - 2)
       /\ \A k \in DOMAIN pageGroups : k < currentPage => pageGroups[k].rotation = -8

\* C5 witness: prevPage() has completed on a page that carries a textured
\* mesh whose vertices were deformed during the flips.
C5_Witness ==
  /\ out.op = "prevPage.onComplete"
  /\ \E j \in 1..Len(pageGroups[currentPage].children) :
       pageGroups[currentPage].children[j].orig # -1

C7_PageChangeCallback ==
  /\ out.op = "constructor" => out.cb = << <<1, totalPages>> >>
  /\ out.op \in {"nextPage.onComplete", "prevPage.onComplete"} =>
       /\ out.cb = << <<currentPage + 1, totalPages>> >>
       /\ ~isAnimating
  /\ out.op \notin {"constructor", "nextPage.onComplete", "prevPage.onComplete"} =>
       out.cb = <<>>

\* C7 witness: a flip has completed and the callback was told page 2 or later.
C7_Witness ==
  /\ out.op = "nextPage.onComplete"
  /\ Len(out.cb) = 1
  /\ currentPage >= 1

\* ---- C8
\* C8: with at least one page, 1 <= getCurrentPage() <= getTotalPages().
C8_PageInRange ==
  totalPages >= 1 => (1 <= GetCurrentPage /\ GetCurrentPage <= GetTotalPages)

\* C8 witness: nextPage() was called, and rejected, on the last page of a
\* book of at least two pages.
C8_Witness ==
  /\ totalPages >= 2
  /\ currentPage = totalPages - 1
  /\ out.op = "nextPage"

\* ---- C9
\* C9: a nextPage() call made during a flip or on the last page, and a
\* prevPage() call made during a flip or on the first page, change nothing
\* (no state, no tween, no fetch); at most one flip tween is in flight.
C9_RejectedCallInert ==
  [][ /\ (out'.op = "nextPage" /\ (isAnimating \/ currentPage >= totalPages - 1)) =>
           UNCHANGED NavVars
      /\ (out'.op = "prevPage" /\ (isAnimating \/ currentPage <= 0)) =>
           UNCHANGED NavVars
      /\ Cardinality(tweens) <= 1
      /\ Cardinality(tweens') <= 1
    ]_vars

\* C9 witness: a navigation call was made, and rejected, while a flip was
\* in progress.
C9_Witness ==
  /\ out.op \in {"nextPage", "prevPage"}
  /\ isAnimating
  /\ Cardinality(tweens) = 1
  /\ \E t \in tweens : t.q > 0

====
